---- MODULE Spec2Model ----
(***************************************************************************)
(* A model of the clubhouse client: the two ClubhouseClient classes of     *)
(* clubhouse/__init__.py (the 0.3.0 client, impl "init") and of            *)
(* clubhouse/api.py (the later client, impl "api").                        *)
(*                                                                         *)
(* Text is modelled as a sequence of one-character strings, so that        *)
(* startswith, strip, path.join and urlparse are computed as Python        *)
(* computes them.  A public call runs from its invocation to its first     *)
(* transport dispatch (the ...Call actions); TransportRespond is the       *)
(* transport answering, after which the code runs on to its next dispatch  *)
(* or to the end of the call.                                              *)
(***************************************************************************)
EXTENDS Integers, Sequences, FiniteSets, TLC

\* ------------------------------------------------------------------ bounds
\* The largest number of requests one call may dispatch in the model: the
\* server stops handing out cursors once this many pages have been requested.
MaxPages == 3

\* ------------------------------------------------------------------- text
ENDPOINT_HOST ==
    <<"h","t","t","p","s",":","/","/","a","p","i",".","c","l","u","b","h","o","u","s","e",".","i","o">>

ENDPOINT_PATH == <<"/","a","p","i","/","v","3">>

TokenParam == <<"t","o","k","e","n","=">>

\* str.startswith
StartsWith(s, p) ==
    /\ Len(s) >= Len(p)
    /\ SubSeq(s, 1, Len(p)) = p

\* str.endswith
EndsWith(s, p) ==
    /\ Len(s) >= Len(p)
    /\ SubSeq(s, Len(s) - Len(p) + 1, Len(s)) = p

\* s.strip("/"): every leading and every trailing slash is removed
RECURSIVE LStrip(_)
LStrip(s) == IF s # <<>> /\ Head(s) = "/" THEN LStrip(Tail(s)) ELSE s

RECURSIVE RStrip(_)
RStrip(s) ==
    IF s # <<>> /\ s[Len(s)] = "/" THEN RStrip(SubSeq(s, 1, Len(s) - 1)) ELSE s

Strip(s) == RStrip(LStrip(s))

\* str(n) of a natural number
Digit(d) == <<"0","1","2","3","4","5","6","7","8","9">>[d + 1]

RECURSIVE StrNat(_)
StrNat(n) == IF n < 10 THEN <<Digit(n)>> ELSE StrNat(n \div 10) \o <<Digit(n % 10)>>

\* Python values that travel as a path segment or as a request body:
\* a str (t = "str", text s), an int (t = "int", value n), None, or the
\* one-key dict {s: n}.
PyStr(s) == [t |-> "str", s |-> s, n |-> 0]
PyInt(n) == [t |-> "int", s |-> <<>>, n |-> n]
PyNone == [t |-> "none", s |-> <<>>, n |-> 0]
PyDict(k, v) == [t |-> "dict", s |-> k, n |-> v]

\* str(v) as _request applies it to a segment
Str(v) == IF v.t = "int" THEN StrNat(v.n) ELSE v.s

\* json.dumps(v)
JsonDumps(v) ==
    CASE v.t = "none" -> <<"n","u","l","l">>
      [] v.t = "int" -> StrNat(v.n)
      [] v.t = "str" -> <<"\"">> \o v.s \o <<"\"">>
      [] OTHER -> <<"{","\"">> \o v.s \o <<"\"",":"," ">> \o StrNat(v.n) \o <<"}">>

\* posixpath.join(a, *p)
RECURSIVE PathJoin(_, _)
PathJoin(a, p) ==
    IF p = <<>> THEN a
    ELSE LET b == Head(p)
             joined == IF StartsWith(b, <<"/">>) THEN b
                       ELSE IF a = <<>> \/ EndsWith(a, <<"/">>) THEN a \o b
                       ELSE a \o <<"/">> \o b
         IN  PathJoin(joined, Tail(p))

\* the index of the first c in s, 0 when there is none
RECURSIVE FindFrom(_, _, _)
FindFrom(s, c, i) ==
    IF i > Len(s) THEN 0 ELSE IF s[i] = c THEN i ELSE FindFrom(s, c, i + 1)

Find(s, c) == FindFrom(s, c, 1)

\* urlparse(url)[4]: the fragment is cut at the first "#", then the query is
\* what follows the first "?" of the rest
UrlQuery(url) ==
    LET h == Find(url, "#")
        noFrag == IF h = 0 THEN url ELSE SubSeq(url, 1, h - 1)
        q == Find(noFrag, "?")
    IN  IF q = 0 THEN <<>> ELSE SubSeq(noFrag, q + 1, Len(noFrag))

\* the number of places at which p occurs in s
Occurrences(s, p) ==
    Cardinality({i \in 1..Len(s) : i + Len(p) - 1 <= Len(s) /\ SubSeq(s, i, i + Len(p) - 1) = p})

\* ------------------------------------------------------- request building
\* a variant that prepends the prefix without looking at the first segment
AnyPrefixed(segments) == <<PyStr(ENDPOINT_PATH)>> \o segments

\* if not segments[0].startswith(ENDPOINT_PATH): segments = [ENDPOINT_PATH, *segments]

WithPrefix(segments) ==
    IF StartsWith(segments[1].s, ENDPOINT_PATH) THEN segments
    ELSE <<PyStr(ENDPOINT_PATH)>> \o segments

\* url = path.join(ENDPOINT_HOST, *[str(s).strip("/") for s in segments])
JoinUrl(segments) ==
    PathJoin(ENDPOINT_HOST, [i \in 1..Len(segments) |-> Strip(Str(segments[i]))])

\* a variant that takes any "?" in the URL for a query string
AnyQuestionMarkPrefix(url) == IF Find(url, "?") # 0 THEN "&" ELSE "?"

\* prefix = "&" if urlparse(url)[4] else "?"
Prefix(url) == IF UrlQuery(url) # <<>> THEN "&" ELSE "?"

\* url + f"{prefix}token={self.api_key}"
DispatchUrl(segments, key) ==
    LET url == JoinUrl(WithPrefix(segments))
    IN  url \o <<Prefix(url)>> \o TokenParam \o key

\* What segments[0].startswith(...) does before any URL is built:
\* IndexError on an empty tuple, AttributeError on an int.
SegmentsError(segments) ==
    IF segments = <<>> THEN "IndexError"
    ELSE IF segments[1].t # "str" THEN "AttributeError"
    ELSE "none"

\* ------------------------------------------------------------- the server
\* JSON `next` fields: absent, null, or a string
NoCursor == [kind |-> "absent", s |-> <<>>]
NullCursor == [kind |-> "null", s |-> <<>>]
StrCursor(s) == [kind |-> "str", s |-> s]

Cursor2 == StrCursor(<<"/","a","p","i","/","v","3","/","s","?","p","=","2">>)
Cursor3 == StrCursor(<<"/","a","p","i","/","v","3","/","s","?","p","=","3">>)

\* Response bodies: no body at all, text that is not JSON (an HTML error
\* page), a JSON array, or a JSON object with a `data` array and a `next`.
EmptyBody == [kind |-> "empty", data |-> <<>>, next |-> NoCursor]
TextBody == [kind |-> "text", data |-> <<>>, next |-> NoCursor]
ArrayBody(d) == [kind |-> "array", data |-> d, next |-> NoCursor]
PageBody(d, nx) == [kind |-> "object", data |-> d, next |-> nx]

Bodies ==
    { EmptyBody, TextBody, ArrayBody(<<7>>),
      PageBody(<<1, 2>>, Cursor2), PageBody(<<3>>, Cursor3),
      PageBody(<<3>>, NullCursor), PageBody(<<4>>, NoCursor),
      PageBody(<<>>, StrCursor(<<>>)) }

StatusCodes == {200, 204, 302, 404, 500, 600}

\* requests sets Response.next (the PreparedRequest of the next hop) only on
\* a redirect that was not followed
RedirectCodes == {301, 302, 303, 307, 308}

Responses ==
    { r \in [status_code : StatusCodes, body : Bodies, next : BOOLEAN] :
        r.next => r.status_code \in RedirectCodes }

\* Python truthiness of a JSON `next`: "next" in result and result["next"]
HasNext(v) == v.next.kind = "str" /\ v.next.s # <<>>

\* response.json(): the parsed value, or a decoding error (ValueError)
NoValue == [type |-> "none", data |-> <<>>, next |-> NoCursor]

JsonOk(body) == body.kind \in {"array", "object"}

Json(body) == [type |-> body.kind, data |-> body.data, next |-> body.next]

\* ------------------------------------------------------------ the client
IgnoredChoices == {{}, {204}, {404}, {302, 404}}

ApiKeys == {<<"k","1">>}

Methods == {"get", "post", "put", "delete"}

\* segment tuples a caller hands to get/post/put/delete
CallerSegments ==
    { <<PyStr(<<"e","p","i","c","s">>)>>,
      <<PyStr(<<"e","p","i","c","s">>), PyInt(12)>>,
      <<PyStr(<<"e","p","i","c","s">>), PyInt(5), PyStr(<<"/","c","o","m","m","e","n","t","s","/">>)>>,
      <<PyStr(<<"s","e","a","r","c","h","/","s","t","o","r","i","e","s","?","a","=","b">>)>>,
      <<PyStr(<<"/","a","p","i","/","v","3","/","s","?","p","=","2">>)>>,
      <<PyStr(<<"a","p","i","/","v","3","/","x">>)>>,
      <<PyStr(<<"e","p","i","c","s">>), PyStr(<<"/","a","p","i","/","v","3","/","s","?","p","=","2">>)>>,
      <<PyStr(<<"x","?">>)>>,
      <<PyStr(<<"x","#","y","?","z">>)>>,
      <<PyStr(<<"x","?","#","f">>)>>,
      <<PyInt(5)>> }

\* segment lists the resource methods build (segments = ["epics", id], ...)
ResourceSegments ==
    { <<PyStr(<<"e","p","i","c","s">>)>>,
      <<PyStr(<<"e","p","i","c","s">>), PyInt(12)>>,
      <<PyStr(<<"e","p","i","c","s">>), PyInt(5), PyStr(<<"c","o","m","m","e","n","t","s">>)>> }

DataChoices == {PyDict(<<"a">>, 1)}

\* the PreparedRequest object that Response.next holds
PyPrepared == [t |-> "prepared", s |-> <<>>, n |-> 0]

\* ------------------------------------------------------------------ state
VARIABLES
    ignored_status_codes,  \* self.ignored_status_codes
    api_key,               \* self.api_key
    pc,                    \* "idle", "waiting" (inside requests.request), "done"
    call,                  \* the public call in progress
    sent,                  \* the requests this call handed to the transport
    received,              \* the responses the transport gave back
    items,                 \* search_stories' local `items`
    outcome,               \* what the call gave its caller, once pc = "done"
    log                    \* logger.error entries of this call

vars == <<ignored_status_codes, api_key, pc, call, sent, received, items, outcome, log>>

NoCall == [impl |-> "none", op |-> "none", segments |-> <<>>, data |-> PyNone]

\* What a call gives its caller: kind "json" (a parsed value), "empty" ({}),
\* "raw" (the requests.Response object itself), "HTTPError", or the name of
\* another exception; status_code and text are those of the response an
\* HTTPError or a raw Response carries.
Out(kind, status, text, value) ==
    [kind |-> kind, status_code |-> status, text |-> text, value |-> value]

NoOutcome == Out("none", 0, EmptyBody, NoValue)

Exception(name) == Out(name, 0, EmptyBody, NoValue)

Raised(o) == o.kind \notin {"none", "json", "empty", "raw"}

\* ------------------------------------------------------- _request, part 2
\* requests' Response.raise_for_status(): HTTPError for 4xx and 5xx only
RaiseForStatus(status) == 400 <= status /\ status < 600

\* response.status_code > 299 and response.status_code not in self.ignored_status_codes
IsFailing(status, ignored) == status > 299 /\ status \notin ignored

\* a variant without the 204 branch
ParsingNoContent(impl, resp, ignored) ==
    IF IsFailing(resp.status_code, ignored) /\ RaiseForStatus(resp.status_code)
    THEN Out("HTTPError", resp.status_code, resp.body, NoValue)
    ELSE IF impl = "api" THEN Out("raw", resp.status_code, resp.body, NoValue)
    ELSE IF JsonOk(resp.body) THEN Out("json", 0, EmptyBody, Json(resp.body))
    ELSE Exception("ValueError")

\* What _request does with the response: raise for a failing status, {} for
\* 204, otherwise the Response itself (api.py) or response.json() (__init__.py).
RequestReturn(impl, resp, ignored) ==
    IF IsFailing(resp.status_code, ignored) /\ RaiseForStatus(resp.status_code)
    THEN Out("HTTPError", resp.status_code, resp.body, NoValue)
    ELSE IF resp.status_code = 204 THEN Out("empty", 0, EmptyBody, NoValue)
    ELSE IF impl = "api" THEN Out("raw", resp.status_code, resp.body, NoValue)
    ELSE IF JsonOk(resp.body) THEN Out("json", 0, EmptyBody, Json(resp.body))
    ELSE Exception("ValueError")

\* ------------------------------------------------------------ the helpers
\* A helper's step after _request came back with r: the call is over with
\* `outcome`, or it goes on with a request to `segments`.
Finish(o, acc) == [done |-> TRUE, outcome |-> o, items |-> acc, segments |-> <<>>]

FollowUp(acc, segs) == [done |-> FALSE, outcome |-> NoOutcome, items |-> acc, segments |-> segs]

\* result.json() in api.py, where result is what _request returned: a
\* Response, or the dict {} (which has no json attribute)
ResultJson(r) ==
    IF r.kind = "raw"
    THEN IF JsonOk(r.text) THEN Out("json", 0, EmptyBody, Json(r.text))
         ELSE Exception("ValueError")
    ELSE IF r.kind = "empty" THEN Exception("AttributeError")
    ELSE r

\* get/post/put/delete and _delete_item: return what _request returned
ForwardStep(r) == Finish(r, <<>>)

\* _create_item, _get_item, _update_item: return result.json()
ItemStep(r) == Finish(ResultJson(r), <<>>)

\* _list_items: items = result.json(); while result.next: the follow-up
\* request is given result.next, the PreparedRequest, as its one segment.
ListItemsStep(r, resp) ==
    LET j == ResultJson(r)
    IN  IF j.kind # "json" THEN Finish(j, <<>>)
        ELSE IF resp.next THEN FollowUp(<<>>, <<PyPrepared>>)
        ELSE Finish(j, <<>>)

\* a variant that swallows a failing page and returns what it has so far
PartialSearchStoriesStep(r, acc) ==
    IF Raised(r) THEN Finish(Out("json", 0, EmptyBody, [type |-> "array", data |-> acc, next |-> NoCursor]), acc)
    ELSE IF r.kind = "empty" THEN Finish(Exception("KeyError"), acc)
    ELSE IF r.value.type # "object" THEN Finish(Exception("TypeError"), acc)
    ELSE LET got == acc \o r.value.data
         IN  IF HasNext(r.value) THEN FollowUp(got, <<PyStr(r.value.next.s)>>)
             ELSE Finish(Out("json", 0, EmptyBody,
                             [type |-> "array", data |-> got, next |-> NoCursor]), got)

\* search_stories: an exception of _request propagates; result["data"] of {}
\* is a KeyError, of a list a TypeError; the page's data is appended and the
\* loop goes on while the page has a truthy "next".
SearchStoriesStep(r, acc) ==
    IF Raised(r) THEN Finish(r, acc)
    ELSE IF r.kind = "empty" THEN Finish(Exception("KeyError"), acc)
    ELSE IF r.value.type # "object" THEN Finish(Exception("TypeError"), acc)
    ELSE LET got == acc \o r.value.data
         IN  IF HasNext(r.value) THEN FollowUp(got, <<PyStr(r.value.next.s)>>)
             ELSE Finish(Out("json", 0, EmptyBody,
                             [type |-> "array", data |-> got, next |-> NoCursor]), got)

Step(op, r, resp, acc) ==
    CASE op \in {"_create_item", "_get_item", "_update_item"} -> ItemStep(r)
      [] op = "_list_items" -> ListItemsStep(r, resp)
      [] op = "search_stories" -> SearchStoriesStep(r, acc)
      [] OTHER -> ForwardStep(r)

\* ---------------------------------------------------------------- actions
Request(method, segments, hasData, data) ==
    [method |-> method, segments |-> segments,
     url |-> DispatchUrl(segments, api_key),
     hasData |-> hasData, data |-> IF hasData THEN JsonDumps(data) ELSE <<>>]

\* _request up to requests.request(...): segments[0].startswith fails before
\* anything is sent, otherwise the request goes to the transport.
Dispatch(method, segments, hasData, data) ==
    IF SegmentsError(segments) # "none"
    THEN /\ pc' = "done"
         /\ outcome' = Exception(SegmentsError(segments))
         /\ sent' = sent
    ELSE /\ pc' = "waiting"
         /\ outcome' = outcome
         /\ sent' = Append(sent, Request(method, segments, hasData, data))

Invoke(c, method, segments, hasData, data) ==
    /\ call' = c
    /\ Dispatch(method, segments, hasData, data)
    /\ UNCHANGED <<ignored_status_codes, api_key, received, items, log>>

\* __init__.py: get/post/put/delete(*segments) -> _request(method, *segments)
InitWrapperCall ==
    /\ pc = "idle"
    /\ \E m \in Methods, segs \in CallerSegments :
           Invoke([impl |-> "init", op |-> m, segments |-> segs, data |-> PyNone],
                  m, segs, FALSE, PyNone)

\* api.py: get/post/put/delete(*segments) -> _request(method, *segments),
\* where _request is (method, data=None, *segments): the first of the
\* caller's segments binds to data.
ApiWrapperCall ==
    /\ pc = "idle"
    /\ \E m \in Methods, segs \in CallerSegments :
           Invoke([impl |-> "api", op |-> m, segments |-> segs, data |-> PyNone],
                  m, Tail(segs), TRUE, Head(segs))

CreateItemCall ==
    /\ pc = "idle"
    /\ \E d \in DataChoices, segs \in ResourceSegments :
           Invoke([impl |-> "api", op |-> "_create_item", segments |-> segs, data |-> d],
                  "post", segs, TRUE, d)

DeleteItemCall ==
    /\ pc = "idle"
    /\ \E segs \in ResourceSegments :
           Invoke([impl |-> "api", op |-> "_delete_item", segments |-> segs, data |-> PyNone],
                  "delete", segs, TRUE, PyNone)

GetItemCall ==
    /\ pc = "idle"
    /\ \E segs \in ResourceSegments :
           Invoke([impl |-> "api", op |-> "_get_item", segments |-> segs, data |-> PyNone],
                  "get", segs, TRUE, PyNone)

ListItemsCall ==
    /\ pc = "idle"
    /\ \E segs \in ResourceSegments :
           Invoke([impl |-> "api", op |-> "_list_items", segments |-> segs, data |-> PyNone],
                  "get", segs, TRUE, PyNone)

UpdateItemCall ==
    /\ pc = "idle"
    /\ \E d \in DataChoices, segs \in ResourceSegments :
           Invoke([impl |-> "api", op |-> "_update_item", segments |-> segs, data |-> d],
                  "put", segs, TRUE, d)

SearchSegments == <<PyStr(<<"s","e","a","r","c","h">>), PyStr(<<"s","t","o","r","i","e","s">>)>>

SearchStoriesCall ==
    /\ pc = "idle"
    /\ Invoke([impl |-> "init", op |-> "search_stories", segments |-> SearchSegments,
               data |-> PyNone],
              "get", SearchSegments, FALSE, PyNone)

\* requests.request returns; _request classifies the response and the helper
\* that called it runs on, to its return or to its next request.
TransportRespond ==
    /\ pc = "waiting"
    /\ \E resp \in Responses :
        /\ Len(sent) >= MaxPages => ~HasNext(Json(resp.body))
        /\ LET r == RequestReturn(call.impl, resp, ignored_status_codes)
               step == Step(call.op, r, resp, items)
           IN  /\ received' = Append(received, resp)
               /\ log' = IF IsFailing(resp.status_code, ignored_status_codes)
                         THEN Append(log, [status_code |-> resp.status_code,
                                           text |-> resp.body])
                         ELSE log
               /\ items' = step.items
               /\ IF step.done
                  THEN /\ pc' = "done"
                       /\ outcome' = step.outcome
                       /\ sent' = sent
                  ELSE Dispatch("get", step.segments, call.impl = "api", PyNone)
    /\ UNCHANGED <<ignored_status_codes, api_key, call>>

\* the caller has its result; the client holds no state of the call
Returned ==
    /\ pc = "done"
    /\ pc' = "idle"
    /\ call' = NoCall
    /\ sent' = <<>>
    /\ received' = <<>>
    /\ items' = <<>>
    /\ outcome' = NoOutcome
    /\ log' = <<>>
    /\ UNCHANGED <<ignored_status_codes, api_key>>

\* ClubhouseClient(api_key, ignored_status_codes=None)
Init ==
    /\ ignored_status_codes \in IgnoredChoices
    /\ api_key \in ApiKeys
    /\ pc = "idle"
    /\ call = NoCall
    /\ sent = <<>>
    /\ received = <<>>
    /\ items = <<>>
    /\ outcome = NoOutcome
    /\ log = <<>>

Next ==
    \/ InitWrapperCall
    \/ ApiWrapperCall
    \/ CreateItemCall
    \/ DeleteItemCall
    \/ GetItemCall
    \/ ListItemsCall
    \/ UpdateItemCall
    \/ SearchStoriesCall
    \/ TransportRespond
    \/ Returned

Spec == Init /\ [][Next]_vars

\* ----------------------------------------------------------------- claims
\* the response _request classified last
LastResponse == received[Len(received)]

\* the calls whose result is _request's own: get/post/put/delete
IsRequestCall == call.op \in Methods

IsListCall == call.op \in {"_list_items", "search_stories"}

Answered == pc = "done" /\ received # <<>>

\* C1: a response whose status is above 299 and not ignored always ends the
\* request operation in an HTTPError carrying that status and body, the 3xx
\* range and codes of 600 and above included; no value is returned for it
\* (stated for the responses whose body is JSON, which could be returned).
C1_FailingStatusRaises ==
    (/\ Answered
     /\ IsRequestCall
     /\ JsonOk(LastResponse.body)
     /\ LastResponse.status_code > 299
     /\ LastResponse.status_code \notin ignored_status_codes)
    => outcome = Out("HTTPError", LastResponse.status_code, LastResponse.body, NoValue)

\* C2: every public call the server answered ends in a parsed JSON value, an
\* empty mapping, or an HTTPError; never in a raw Response object or in
\* another kind of error (stated for the answers whose body is JSON).
C2_ThreeOutcomes ==
    (Answered /\ JsonOk(LastResponse.body))
    => outcome.kind \in {"json", "empty", "HTTPError"}

\* C3: a 204 response makes the request operation return an empty mapping,
\* whatever the ignored set and whatever body came with it; the body is
\* neither parsed nor returned.
C3_NoContentIsEmptyMapping ==
    (/\ Answered
     /\ IsRequestCall
     /\ LastResponse.status_code = 204)
    => outcome = Out("empty", 0, EmptyBody, NoValue)

C3_Witness ==
    /\ Answered
    /\ IsRequestCall
    /\ LastResponse.status_code = 204
    /\ LastResponse.body = PageBody(<<1, 2>>, Cursor2)
    /\ 204 \in ignored_status_codes
    /\ outcome.kind = "empty"

\* C4: a status S > 299 in the ignored set makes the request operation
\* return the parsed body, or an empty mapping when there is no body; with
\* an empty ignored set the same response raises an HTTPError with S and the
\* response text.
C4_IgnoredStatusIsSuccess ==
    (/\ Answered
     /\ IsRequestCall
     /\ LastResponse.status_code > 299
     /\ LastResponse.body.kind \in {"empty", "array", "object"})
    => /\ LastResponse.status_code \in ignored_status_codes
          => outcome = IF LastResponse.body.kind = "empty"
                       THEN Out("empty", 0, EmptyBody, NoValue)
                       ELSE Out("json", 0, EmptyBody, Json(LastResponse.body))
       /\ ignored_status_codes = {}
          => outcome = Out("HTTPError", LastResponse.status_code,
                           LastResponse.body, NoValue)

\* the `data` of the pages rs, in page order
RECURSIVE ConcatData(_)
ConcatData(rs) == IF rs = <<>> THEN <<>> ELSE Head(rs).body.data \o ConcatData(Tail(rs))

\* a successful page: status 200, a JSON object with `data` (and maybe `next`)
IsPage(resp) == resp.status_code = 200 /\ resp.body.kind = "object" /\ ~resp.next

\* C5: when the server serves a chain of pages, the list helper returns the
\* concatenation of their `data` in page order, and every follow-up request
\* is addressed to the `next` cursor of the page before it.
C5_ListConcatenatesPages ==
    (/\ Answered
     /\ IsListCall
     /\ \A i \in 1..Len(received) : IsPage(received[i]))
    => /\ ~HasNext(Json(LastResponse.body))
       /\ outcome = Out("json", 0, EmptyBody,
                        [type |-> "array", data |-> ConcatData(received), next |-> NoCursor])
       /\ Len(sent) = Len(received)
       /\ \A i \in 2..Len(sent) :
             sent[i].segments = <<PyStr(received[i - 1].body.next.s)>>

\* a page request failed: _request raised an HTTPError for the response
PageFailed(resp) ==
    /\ resp.status_code > 299
    /\ resp.status_code \notin ignored_status_codes
    /\ resp.status_code \in 400..599

\* C6: a failing page request, the first or a later one, ends the list
\* operation in that HTTPError: nothing accumulated is returned and no
\* request follows the failing one.
C6_FailingPageAbortsList ==
    IsListCall =>
        \A i \in 1..Len(received) :
            PageFailed(received[i])
            => /\ i = Len(received)
               /\ Len(sent) = i
               /\ pc = "done"
               /\ outcome = Out("HTTPError", received[i].status_code,
                                received[i].body, NoValue)

C6_Witness ==
    /\ call.op = "search_stories"
    /\ Len(received) >= 2
    /\ PageFailed(LastResponse)
    /\ items # <<>>
    /\ outcome.kind = "HTTPError"

\* the URL u has a non-empty query string: a "?" before any "#", with at
\* least one character of query after it
QueryNonEmpty(u) ==
    \E q \in 1..Len(u) :
        /\ u[q] = "?"
        /\ \A j \in 1..(q - 1) : u[j] \notin {"?", "#"}
        /\ q < Len(u)
        /\ u[q + 1] # "#"

\* C7: every dispatched URL is the joined URL, then "&" if that has a
\* non-empty query string and "?" otherwise, then token=<api_key>, once;
\* also on the follow-up requests built from a `next` link.
C7_TokenAppendedOnce ==
    \A i \in 1..Len(sent) :
        LET joined == JoinUrl(IF StartsWith(sent[i].segments[1].s, ENDPOINT_PATH)
                              THEN sent[i].segments
                              ELSE <<PyStr(ENDPOINT_PATH)>> \o sent[i].segments)
            sep == IF QueryNonEmpty(joined) THEN "&" ELSE "?"
        IN  sent[i].url = joined \o <<sep>> \o TokenParam \o api_key

C7_Witness ==
    /\ call.op = "search_stories"
    /\ Len(sent) >= 2
    /\ sent[1].url = JoinUrl(<<PyStr(ENDPOINT_PATH)>> \o SearchSegments)
                        \o <<"?">> \o TokenParam \o api_key
    /\ sent[2].segments = <<PyStr(Cursor2.s)>>
    /\ EndsWith(sent[2].url, <<"=", "2", "&">> \o TokenParam \o api_key)

\* the caller's segments as one path: "/" and the stripped segments joined
CallerPath(segments) ==
    <<"/">> \o PathJoin(<<>>, [i \in 1..Len(segments) |-> Strip(Str(segments[i]))])

\* C8 as stated: every constructed URL begins with the host and contains the
\* version prefix exactly once.
C8_PrefixExactlyOnce ==
    \A i \in 1..Len(sent) :
        /\ StartsWith(sent[i].url, ENDPOINT_HOST)
        /\ Occurrences(sent[i].url, ENDPOINT_PATH) = 1

\* C8, amended: every constructed URL is the host, then the version prefix
\* exactly when the first segment does not start with it, then the caller's
\* path; so it begins with host and prefix, and it contains the prefix once
\* whenever the caller's path holds it nowhere but at its start.
C8_PrefixLeadsUrl ==
    \A i \in 1..Len(sent) :
        LET segs == sent[i].segments
            lead == StartsWith(segs[1].s, ENDPOINT_PATH)
            path == CallerPath(segs)
        IN  /\ StartsWith(sent[i].url, ENDPOINT_HOST \o ENDPOINT_PATH)
            /\ StartsWith(sent[i].url,
                          ENDPOINT_HOST \o (IF lead THEN <<>> ELSE ENDPOINT_PATH) \o path)
            /\ Occurrences(path, ENDPOINT_PATH) = (IF lead THEN 1 ELSE 0)
               => Occurrences(sent[i].url, ENDPOINT_PATH) = 1

C8_Witness ==
    /\ Len(sent) >= 2
    /\ StartsWith(sent[2].segments[1].s, ENDPOINT_PATH)
    /\ Occurrences(sent[2].url, ENDPOINT_PATH) = 1
    /\ ~StartsWith(sent[1].segments[1].s, ENDPOINT_PATH)
    /\ Occurrences(sent[1].url, ENDPOINT_PATH) = 1

\* C9: get/post/put/delete called with segments s1..sn does what the request
\* operation does with that method and those n segments: the same failure
\* before dispatch, or a request whose URL addresses all n segments.
C9_WrapperForwardsSegments ==
    (IsRequestCall /\ pc # "idle")
    => IF SegmentsError(call.segments) # "none"
       THEN sent = <<>> /\ outcome = Exception(SegmentsError(call.segments))
       ELSE /\ sent # <<>>
            /\ sent[1].method = call.op
            /\ sent[1].segments = call.segments
            /\ sent[1].url = DispatchUrl(call.segments, api_key)

\* C10: after each successful page the list helper issues a follow-up
\* request exactly when the page carries a non-empty `next` cursor.
C10_FollowUpIffNext ==
    IsListCall =>
        \A i \in 1..Len(received) :
            IsPage(received[i]) => (HasNext(Json(received[i].body)) <=> Len(sent) > i)

\* C11: in every execution of the request operation a raised HTTPError comes
\* with exactly one error-level log entry holding the status code and the
\* response text, and a log entry comes only with a raised HTTPError: none
\* is emitted on a call that then returns a value (stated for the responses
\* whose body is JSON, which could be returned).
C11_LogIffRaised ==
    (/\ Answered
     /\ IsRequestCall
     /\ JsonOk(LastResponse.body))
    => /\ outcome.kind = "HTTPError"
          => log = <<[status_code |-> LastResponse.status_code,
                      text |-> LastResponse.body]>>
       /\ log # <<>> => outcome.kind = "HTTPError"

\* the part of C12 that is about dispatches alone: every invocation of
\* _request hands the transport one request and waits for its answer, and
\* get/post/put/delete, which invoke it once, send at most one request.
OneDispatchPerInvocation ==
    /\ Len(sent) <= Len(received) + 1
    /\ pc = "waiting" <=> Len(sent) = Len(received) + 1
    /\ IsRequestCall => Len(sent) <= 1

\* C12: there is no retry: an invocation of the request operation performs
\* at most one transport dispatch, and when the answer has a failing status
\* (above 299) that is not ignored, the error is surfaced to the caller at
\* once, no further request being sent (stated for the responses whose body
\* is JSON, which could be returned instead).
C12_FailsOnceImmediately ==
    /\ OneDispatchPerInvocation
    /\ (/\ Answered
        /\ IsRequestCall
        /\ JsonOk(LastResponse.body)
        /\ LastResponse.status_code > 299
        /\ LastResponse.status_code \notin ignored_status_codes)
       => /\ Raised(outcome)
          /\ outcome.status_code = LastResponse.status_code
          /\ Len(sent) = 1

====
